---- MODULE Spec2Model ----
(***************************************************************************)
(* A model of dom-to-svg's src/index.ts.                                   *)
(*                                                                         *)
(* Two operations are modelled:                                            *)
(*   - elementToSVG: the font-face collector (lines 31-64) reads the       *)
(*     source document's stylesheets, rewrites the url()s of their         *)
(*     font-face rules and copies the rules to the output style block;     *)
(*     the tree walk (lines 66-74) emits the output nodes; lines 76-79     *)
(*     set width, height and viewBox.  It is synchronous, so a call is     *)
(*     one action.                                                         *)
(*   - inlineResources (lines 92-132), an async function.  A call runs to  *)
(*     its first await; after that the program advances only when a fetch  *)
(*     or a timer settles, and every continuation that becomes runnable    *)
(*     is run before the next such event (the microtask queue is drained). *)
(*                                                                         *)
(* Text is modelled as a sequence of lexemes, since the code parses,       *)
(* rewrites and re-serialises it.                                          *)
(***************************************************************************)
EXTENDS Integers, Sequences, FiniteSets

(***************************************************************************)
(* Bounds of the model.                                                    *)
(***************************************************************************)
\* Stylesheets in the source document.
MaxSheets == 2
\* Path segments of a url() argument.
MaxSegs == 2
\* Calls of elementToSVG on the same source document.
MaxRuns == 2
\* Elements of the tree inlineResources is called on.
MaxNodes == 3
\* Elements of the source tree elementToSVG converts.
MaxElems == 3

(***************************************************************************)
(* URL text.  A URL is a sequence of lexemes: a scheme-and-authority       *)
(* lexeme (only at the head), "/" separators, names, the dot segment ".."  *)
(* and the CSS escape character "\\" in front of a name.  The texts are    *)
(* path-only: no query, no fragment, no scheme-relative form.              *)
(***************************************************************************)
\* No href: null or the empty string, which the code's tests take alike.
Null == <<>>
\* What new URL() throws.
Invalid == <<"TypeError: Invalid URL">>

Origin == "https://h"
CrossOrigin == "https://x"
Schemes == {Origin, CrossOrigin, "data:"}

\* One path segment as it may be written in a style sheet.
SegTexts == {<<"..">>, <<"a">>, <<"\\", "(b">>}

RECURSIVE PathTexts(_)
PathTexts(n) ==
    IF n = 1 THEN SegTexts
    ELSE PathTexts(n - 1) \cup
         {p \o <<"/">> \o s : p \in PathTexts(n - 1), s \in SegTexts}

\* Relative, root-relative and absolute references.
UrlTexts ==
    {pre \o p : pre \in {<<>>, <<"/">>, <<Origin, "/">>}, p \in PathTexts(MaxSegs)}

\* String.prototype.replace(/\\(.)/g, '$1'): a backslash and the character
\* after it are replaced by that character.
RECURSIVE Unescape(_)
Unescape(text) ==
    IF text = <<>> THEN <<>>
    ELSE IF Head(text) = "\\" /\ Len(text) >= 2
         THEN <<text[2]>> \o Unescape(SubSeq(text, 3, Len(text)))
         ELSE <<Head(text)>> \o Unescape(Tail(text))

\* The segments of a path text, split at its separators.
RECURSIVE SplitPath(_, _, _)
SplitPath(text, cur, acc) ==
    IF text = <<>> THEN Append(acc, cur)
    ELSE IF Head(text) = "/"
         THEN SplitPath(Tail(text), <<>>, Append(acc, cur))
         ELSE SplitPath(Tail(text), Append(cur, Head(text)), acc)

Segments(pathText) == SplitPath(pathText, <<>>, <<>>)

Front(s) == IF s = <<>> THEN <<>> ELSE SubSeq(s, 1, Len(s) - 1)

\* The URL parser's path state: ".." removes the last segment, "." is
\* dropped, and either of them at the end leaves an empty last segment.
RECURSIVE RemoveDots(_, _, _)
RemoveDots(segs, i, out) ==
    IF i > Len(segs) THEN out
    ELSE LET seg == segs[i]
             last == (i = Len(segs))
         IN  IF seg = <<"..">>
             THEN RemoveDots(segs, i + 1,
                             IF last THEN Append(Front(out), <<>>) ELSE Front(out))
             ELSE IF seg = <<".">>
             THEN RemoveDots(segs, i + 1, IF last THEN Append(out, <<>>) ELSE out)
             ELSE RemoveDots(segs, i + 1, Append(out, seg))

RECURSIVE JoinPath(_)
JoinPath(segs) ==
    IF segs = <<>> THEN <<>>
    ELSE <<"/">> \o Head(segs) \o JoinPath(Tail(segs))

\* URL.href: the authority followed by the normalised path.
Href(authority, segs) == <<authority>> \o JoinPath(RemoveDots(segs, 1, <<>>))

\* The path segments of an absolute URL text.
AbsSegments(text) ==
    IF Len(text) >= 2 THEN Segments(SubSeq(text, 3, Len(text))) ELSE <<<<>>>>

IsAbsolute(text) == text # <<>> /\ Head(text) \in Schemes

\* new URL(text, base).href; base = Null is new URL(text).  A reference
\* that is not absolute cannot be parsed without a base.
URL(text, base) ==
    IF text # <<>> /\ Head(text) = "data:" THEN text
    ELSE IF IsAbsolute(text) THEN Href(Head(text), AbsSegments(text))
    ELSE IF base = Null THEN Invalid
    ELSE IF text # <<>> /\ Head(text) = "/"
         THEN Href(Head(base), Segments(Tail(text)))
         ELSE Href(Head(base), Front(AbsSegments(base)) \o Segments(text))

(***************************************************************************)
(* postcss-value-parser.  The text of a src descriptor is a sequence of    *)
(* tokens: a function call name(arg) with its argument quoted or not, or  *)
(* a comma.  The parser turns it into nodes, stringify turns nodes back.   *)
(***************************************************************************)
Fn(name, quote, arg) == [tok |-> "fn", name |-> name, quote |-> quote, arg |-> arg]
Comma == [tok |-> "comma"]

ParseToken(t) ==
    IF t.tok = "comma" THEN [type |-> "div", value |-> ","]
    ELSE [type |-> "function", value |-> t.name,
          nodes |-> IF t.arg = <<>> /\ t.quote = "" THEN <<>>
                    ELSE <<[type |-> IF t.quote = "" THEN "word" ELSE "string",
                            quote |-> t.quote, value |-> t.arg]>>]

cssValueParser(src) == [i \in 1..Len(src) |-> ParseToken(src[i])]

StringifyNode(n) ==
    IF n.type = "div" THEN Comma
    ELSE IF n.nodes = <<>> THEN Fn(n.value, "", <<>>)
    ELSE Fn(n.value, IF n.nodes[1].type = "string" THEN n.nodes[1].quote ELSE "",
            n.nodes[1].value)

stringify(nodes) == [i \in 1..Len(nodes) |-> StringifyNode(nodes[i])]

\* The url() argument a walk callback rewrites (lines 49-51, 108-110).
IsUrlNode(node) ==
    /\ node.type = "function"
    /\ node.value = "url"
    /\ node.nodes # <<>>
    /\ node.nodes[1].type \in {"string", "word"}

(***************************************************************************)
(* The source document: document.styleSheets.  A style sheet is           *)
(* accessible or not (reading the rules of a cross-origin sheet throws),   *)
(* has an href (Null for an inline <style>) and a list of rules.           *)
(***************************************************************************)
SheetHrefs == {<<Origin, "/", "css", "/", "site.css">>, <<Origin, "/", "b.css">>}
CrossOriginHref == <<CrossOrigin, "/", "c.css">>

FontFaceRule(src) == [type |-> "font-face", src |-> src]
StyleRule == [type |-> "style", src |-> <<>>]

\* The rule lists a style sheet may hold, for a url() argument u.
RuleLists(u) ==
    { <<FontFaceRule(<<Fn("url", "\"", u)>>)>>,
      <<StyleRule,
        FontFaceRule(<<Fn("local", "\"", <<"F">>), Comma,
                       Fn("url", "", u), Fn("format", "\"", <<"woff">>)>>)>>,
      <<FontFaceRule(<<Fn("url", "", <<>>)>>),
        FontFaceRule(<<Fn("url", "'", u)>>)>> }

SheetsOf(u) ==
    {[accessible |-> TRUE, href |-> h, rules |-> rs] :
        h \in SheetHrefs \cup {Null}, rs \in RuleLists(u)}
    \cup {[accessible |-> FALSE, href |-> CrossOriginHref,
            rules |-> <<FontFaceRule(<<Fn("url", "\"", u)>>)>>]}

Documents ==
    UNION {[1..n -> SheetsOf(u)] : n \in 1..MaxSheets, u \in UrlTexts}

(***************************************************************************)
(* The element elementToSVG converts and the options it is called with.    *)
(* A DOMRect has integer coordinates here.  Node 1 of the source tree is   *)
(* the converted element; the parent of a node has a smaller number.  Of   *)
(* the computed style of a node, position and z-index are modelled; the   *)
(* converted element itself is not positioned.                             *)
(***************************************************************************)
Rect(x, y, width, height) == [x |-> x, y |-> y, width |-> width, height |-> height]

RectInView == Rect(0, 0, 10, 10)
RectBelow == Rect(0, 20, 10, 10)
RectAcross == Rect(0 - 5, 5, 12, 7)
Rects == {RectInView, RectBelow, RectAcross}

\* options: captureArea is absent (<<>>) or one rectangle.
Options == {[captureArea |-> <<>>]} \cup {[captureArea |-> <<r>>] : r \in Rects}

\* position and z-index of the computed style; z-index auto is <<>>.
Static == [position |-> "static", zIndex |-> <<>>]
PositionedAuto == [position |-> "relative", zIndex |-> <<>>]
Positioned(z) == [position |-> "relative", zIndex |-> <<z>>]
ComputedStyles == {Static, PositionedAuto, Positioned(0 - 1), Positioned(1)}

SourceNode(parent, rect, style) == [parent |-> parent, rect |-> rect, style |-> style]

SourceTrees ==
    UNION {
      { [n \in 1..size |-> SourceNode(parents[n], rects[n], styles[n])] :
            parents \in {q \in [1..size -> 0..size] :
                            \A n \in 1..size : IF n = 1 THEN q[n] = 0
                                                ELSE q[n] \in 1..(n - 1)},
            rects \in [1..size -> Rects],
            styles \in {s \in [1..size -> ComputedStyles] : s[1] = Static} }
      : size \in 1..MaxElems }

\* The element and the document of the runs that are about the collector.
PlainElement == <<SourceNode(0, RectInView, Static)>>
PlainDocument ==
    <<[accessible |-> TRUE, href |-> <<Origin, "/", "css", "/", "site.css">>,
       rules |-> <<FontFaceRule(<<Fn("url", "\"", <<"..", "/", "a">>)>>)>>]>>

\* Number.prototype.toString of an integer.
Digits == <<"0", "1", "2", "3", "4", "5", "6", "7", "8", "9">>

RECURSIVE NatToString(_)
NatToString(n) ==
    IF n < 10 THEN <<Digits[n + 1]>>
    ELSE NatToString(n \div 10) \o <<Digits[(n % 10) + 1]>>

ToString(i) == IF i < 0 THEN <<"-">> \o NatToString(0 - i) ELSE NatToString(i)

VARIABLES
    element,        \* the source tree elementToSVG is called on
    options,        \* the options elementToSVG is called with
    styleSheets,    \* document.styleSheets of the source document
    original,       \* document.styleSheets before the first call
    svgDocs,        \* what each call of elementToSVG returned or threw
    tree,           \* the element tree inlineResources is called on
    pc,             \* per element: where its inlineResources call stands
    net,            \* per resource reference: the promise of fetchAsDataURL
    race,           \* per resource reference: the promise of withTimeout
    attr,           \* per element: its href and data-src attributes
    cssRules,       \* per style element: element.sheet.cssRules
    cur,            \* per style element: the rule its call is awaiting
    parsed,         \* per style element: parsedSourceValue of that rule
    opts,           \* per element: the options its inlineResources call got
    calls,          \* per resource reference: the fetch functions called
    writes          \* the writes so far: <<what was written, the task>>

cvars == <<element, options, styleSheets, original, svgDocs>>
ivars == <<tree, pc, net, race, attr, cssRules, cur, parsed, opts, calls,
          writes>>
vars == <<cvars, ivars>>

(***************************************************************************)
(* elementToSVG, lines 31-64: the font-face collector.                     *)
(***************************************************************************)
isCSSFontFaceRule(rule) == rule.type = "font-face"

\* rule.cssText of a font-face rule.
cssText(rule) == [atRule |-> "@font-face", src |-> rule.src]

\* styleSheet.rules: throws for a sheet the document may not read.
ReadRules(styleSheet) ==
    IF styleSheet.accessible
    THEN [threw |-> FALSE, rules |-> styleSheet.rules]
    ELSE [threw |-> TRUE, rules |-> <<>>]

\* TryReadRules without the try of lines 35-39: the throw leaves the loop.
TryReadRulesUncaught(styleSheet) == ReadRules(styleSheet)

\* Lines 34-39 and the `rules ?? []` of line 41: the throw is caught and
\* logged, and the loop then runs over no rule.
TryReadRules(styleSheet) ==
    [threw |-> FALSE, rules |-> ReadRules(styleSheet).rules]

\* AbsoluteUrl by joining the directory of the style sheet and the value,
\* whatever the value is.
AbsoluteUrlJoined(value, styleSheetHref) ==
    Front(styleSheetHref) \o Unescape(value)

\* Lines 52-55: new URL(value.replace(/\\(.)/g, '$1'), styleSheetHref).href
AbsoluteUrl(value, styleSheetHref) == URL(Unescape(value), styleSheetHref)

\* Lines 48-58: the walk callback rewrites the argument of a url().
MakeAbsolute(node, styleSheetHref) ==
    IF IsUrlNode(node)
    THEN [node EXCEPT !.nodes[1].value = AbsoluteUrl(@, styleSheetHref)]
    ELSE node

\* Lines 45-60: the src of one font-face rule after the rewriting.
RewriteSrc(rule, styleSheetHref) ==
    IF styleSheetHref # Null
    THEN LET parsedSourceValue == cssValueParser(rule.src)
             walked == [i \in 1..Len(parsedSourceValue) |->
                            MakeAbsolute(parsedSourceValue[i], styleSheetHref)]
         IN  [rule EXCEPT !.src = stringify(walked)]
    ELSE rule

\* Lines 41-62: the loop over the rules of one style sheet.  Returns the
\* rules as the loop leaves them and the texts appended to the style element.
RECURSIVE CopyRules(_, _, _, _)
CopyRules(rules, styleSheetHref, j, appended) ==
    IF j > Len(rules) THEN [rules |-> rules, appended |-> appended]
    ELSE IF ~isCSSFontFaceRule(rules[j])
         THEN CopyRules(rules, styleSheetHref, j + 1, appended)
         ELSE LET rule == RewriteSrc(rules[j], styleSheetHref)
              IN  CopyRules([rules EXCEPT ![j] = rule], styleSheetHref, j + 1,
                            Append(appended, cssText(rule)))

\* Lines 33-63: the loop over the style sheets.  A throw that is not caught
\* leaves the function: the sheets keep what was written to them so far.
RECURSIVE CopyFontFaces(_, _, _)
CopyFontFaces(sheets, i, style) ==
    IF i > Len(sheets) THEN [styleSheets |-> sheets, style |-> style, threw |-> FALSE]
    ELSE LET read == TryReadRules(sheets[i])
         IN  IF read.threw
             THEN [styleSheets |-> sheets, style |-> style, threw |-> TRUE]
             ELSE LET done == CopyRules(read.rules, sheets[i].href, 1, style)
                  IN  CopyFontFaces(
                          IF sheets[i].accessible
                          THEN [sheets EXCEPT ![i].rules = done.rules]
                          ELSE sheets,
                          i + 1, done.appended)

\* element.getBoundingClientRect() of the converted element.
getBoundingClientRect(el) == el[1].rect

\* BoundsOf always taking the bounding box of the element.
BoundsOfElement(el, o) == getBoundingClientRect(el)

\* Lines 73 and 76: options?.captureArea ?? element.getBoundingClientRect()
BoundsOf(el, o) ==
    IF o.captureArea # <<>> THEN o.captureArea[1]
    ELSE getBoundingClientRect(el)

\* Lines 76-79: the width, height and viewBox attributes of the root.
SetBounds(bounds) ==
    [width |-> ToString(bounds.width),
     height |-> ToString(bounds.height),
     viewBox |-> ToString(bounds.x) \o <<" ">> \o ToString(bounds.y) \o <<" ">>
                 \o ToString(bounds.width) \o <<" ">> \o ToString(bounds.height)]

(***************************************************************************)
(* The stacking layers and the tree walk, lines 66-74.  createStackingLayers*)
(* and walkNode are in ./stacking and ./traversal; they are modelled from  *)
(* the design of the converter: a stacking context has one layer per       *)
(* bucket, the layers lie in paint order, and the walk appends the output  *)
(* node of a source node to the layer of its bucket in the stacking        *)
(* context it belongs to.  A stacking context is named by the source node  *)
(* that establishes it, the root context by 0.                             *)
(***************************************************************************)
\* The layers of a stacking context, in paint order.
StackingLayerNames == <<"negative", "inFlow", "positioned", "positive">>

createStackingLayers == [b \in DOMAIN StackingLayerNames |-> <<>>]

establishesStackingContext(style) ==
    style.position # "static" /\ style.zIndex # <<>>

\* stackingLayerOf placing every node with the in-flow content.
stackingLayerInFlow(style) == 2

\* The layer of the stacking context a node is attached to.
stackingLayerOf(style) ==
    IF style.position = "static" THEN 2
    ELSE IF style.zIndex = <<>> THEN 3
    ELSE IF style.zIndex[1] < 0 THEN 1
    ELSE IF style.zIndex[1] = 0 THEN 3
    ELSE 4

doRectanglesIntersect(a, b) ==
    /\ a.x < b.x + b.width
    /\ b.x < a.x + a.width
    /\ a.y < b.y + b.height
    /\ b.y < a.y + a.height

\* The children of a source node, in document order.
RECURSIVE ChildrenFrom(_, _, _)
ChildrenFrom(el, n, c) ==
    IF c > Len(el) THEN <<>>
    ELSE (IF el[c].parent = n THEN <<c>> ELSE <<>>) \o ChildrenFrom(el, n, c + 1)

RECURSIVE walkNode(_, _, _, _, _)
RECURSIVE WalkChildNodes(_, _, _, _, _)

\* walkNode culling the node alone: the children of a node outside the
\* capture area are still walked.
walkNodeCullSelf(el, layers, n, context, captureArea) ==
    IF ~doRectanglesIntersect(el[n].rect, captureArea)
    THEN WalkChildNodes(el, layers, ChildrenFrom(el, n, 1), context, captureArea)
    ELSE LET layer == stackingLayerOf(el[n].style)
             attached == [layers EXCEPT ![context][layer] = Append(@, n)]
         IN  WalkChildNodes(el, attached, ChildrenFrom(el, n, 1),
                            IF establishesStackingContext(el[n].style)
                            THEN n ELSE context,
                            captureArea)

\* walkNode(node, context): a node that does not intersect the capture
\* area is skipped with its subtree; else its output node is attached to
\* its layer of the stacking context and the children are walked in
\* document order, in the context the node establishes if it does.
walkNode(el, layers, n, context, captureArea) ==
    IF ~doRectanglesIntersect(el[n].rect, captureArea) THEN layers
    ELSE LET layer == stackingLayerOf(el[n].style)
             attached == [layers EXCEPT ![context][layer] = Append(@, n)]
         IN  WalkChildNodes(el, attached, ChildrenFrom(el, n, 1),
                            IF establishesStackingContext(el[n].style)
                            THEN n ELSE context,
                            captureArea)

WalkChildNodes(el, layers, cs, context, captureArea) ==
    IF cs = <<>> THEN layers
    ELSE WalkChildNodes(el, walkNode(el, layers, Head(cs), context, captureArea),
                        Tail(cs), context, captureArea)

\* The output nodes of a stacking context in document order: layer after
\* layer, and the layers a node establishes right after the node.
RECURSIVE DocumentOrder(_, _, _, _)
RECURSIVE LayerOrder(_, _, _)
DocumentOrder(el, layers, context, b) ==
    IF b > Len(StackingLayerNames) THEN <<>>
    ELSE LayerOrder(el, layers, layers[context][b])
         \o DocumentOrder(el, layers, context, b + 1)

LayerOrder(el, layers, nodes) ==
    IF nodes = <<>> THEN <<>>
    ELSE <<Head(nodes)>>
         \o (IF establishesStackingContext(el[Head(nodes)].style)
             THEN DocumentOrder(el, layers, Head(nodes), 1) ELSE <<>>)
         \o LayerOrder(el, layers, Tail(nodes))

\* Lines 21-82.  A throw of the collector leaves the function before the
\* walk: the document is not returned.
elementToSVG(el, o, sheets) ==
    LET copied == CopyFontFaces(sheets, 1, <<>>)
        captureArea == BoundsOf(el, o)
        layers == walkNode(el, [c \in 0..Len(el) |-> createStackingLayers],
                           1, 0, captureArea)
        root == SetBounds(BoundsOf(el, o))
    IN  [styleSheets |-> copied.styleSheets,
         svgDocument |->
            IF copied.threw
            THEN [threw |-> TRUE, style |-> copied.style, captureArea |-> <<>>,
                  body |-> <<>>,
                  width |-> <<>>, height |-> <<>>, viewBox |-> <<>>]
            ELSE [threw |-> FALSE, style |-> copied.style,
                  captureArea |-> <<captureArea>>,
                  body |-> DocumentOrder(el, layers, 0, 1),
                  width |-> root.width, height |-> root.height,
                  viewBox |-> root.viewBox]]

\* A call of elementToSVG (or documentToSVG, line 18) on the document.
ElementToSVG ==
    /\ Len(svgDocs) < MaxRuns
    /\ LET r == elementToSVG(element, options, styleSheets)
       IN  /\ styleSheets' = r.styleSheets
           /\ svgDocs' = Append(svgDocs, r.svgDocument)
    /\ UNCHANGED <<element, options, original, ivars>>

(***************************************************************************)
(* The tree inlineResources works on.  An element is an image, a style     *)
(* element or any other element; node 1 is the element of the top-level    *)
(* call and the parent of a node has a smaller number.  The document has   *)
(* at most one style element (the one elementToSVG creates, line 32).      *)
(***************************************************************************)
Root == 1

FontA == <<Origin, "/", "a.woff">>
FontB == <<Origin, "/", "b.woff">>
FontC == <<Origin, "/", "css", "/", "..", "/", "c.woff">>
FontRel == <<"fonts", "/", "d.woff">>

\* element.sheet of the style element: none, or a list of rules.
NoSheet == [hasSheet |-> FALSE, rules |-> <<>>]
Sheets ==
    { NoSheet,
      [hasSheet |-> TRUE,
       rules |-> <<FontFaceRule(<<Fn("url", "\"", FontA), Comma, Fn("url", "\"", FontB)>>),
                   FontFaceRule(<<Fn("url", "\"", FontC)>>)>>],
      [hasSheet |-> TRUE,
       rules |-> <<FontFaceRule(<<Fn("url", "\"", FontA), Comma, Fn("url", "", FontRel)>>),
                   FontFaceRule(<<Fn("url", "\"", FontB)>>)>>],
      [hasSheet |-> TRUE,
       rules |-> <<StyleRule,
                   FontFaceRule(<<Fn("local", "\"", <<"F">>), Comma, Fn("url", "", <<>>)>>),
                   FontFaceRule(<<Fn("url", "'", FontA), Fn("format", "\"", <<"woff">>)>>)>>] }

\* href of an image element: an absolute or a relative reference.
ImageHref(n) == IF n % 2 = 1 THEN <<Origin, "/", "a.png">> ELSE <<"b.png">>

Element(n, kind, parent, sheet) ==
    [kind |-> kind, parent |-> parent,
     href |-> IF kind = "image" THEN ImageHref(n) ELSE Null,
     sheet |-> IF kind = "style" THEN sheet ELSE NoSheet]

Trees ==
    UNION {
      { [n \in 1..size |-> Element(n, kinds[n], parents[n], sheet)] :
            kinds \in {k \in [1..size -> {"g", "image", "style"}] :
                          Cardinality({n \in 1..size : k[n] = "style"}) <= 1},
            parents \in {q \in [1..size -> 0..size] :
                            \A n \in 1..size : IF n = Root THEN q[n] = 0
                                                ELSE q[n] \in 1..(n - 1)},
            sheet \in Sheets }
      : size \in 1..MaxNodes }

Nodes == DOMAIN tree

isSVGImageElement(n) == tree[n].kind = "image"
isSVGStyleElement(n) == tree[n].kind = "style"

\* [...element.children], in document order.
RECURSIVE Ascending(_)
Ascending(S) ==
    IF S = {} THEN <<>>
    ELSE LET m == CHOOSE x \in S : \A y \in S : x <= y
         IN  <<m>> \o Ascending(S \ {m})

ChildSet(n) == {c \in Nodes : tree[c].parent = n}
children(n) == Ascending(ChildSet(n))

\* A resource reference: the href of image n is <<n, 0, 0>>, the url() at
\* token k of rule r of style element n is <<n, r, k>>.
ImageRef(n) == <<n, 0, 0>>

IsUrlToken(t) == t.tok = "fn" /\ IsUrlNode(ParseToken(t))

UrlTokens(src) == {k \in DOMAIN src : IsUrlToken(src[k])}

FontRefs(t, n) ==
    UNION {{<<n, r, k>> : k \in UrlTokens(t[n].sheet.rules[r].src)} :
              r \in DOMAIN t[n].sheet.rules}

RefsOf(t) ==
    {ImageRef(n) : n \in {m \in DOMAIN t : t[m].kind = "image"}}
    \cup UNION {FontRefs(t, n) : n \in {m \in DOMAIN t : t[m].kind = "style"}}

Refs == RefsOf(tree)

\* The data URL fetchAsDataURL resolves with for a URL.
DataURL(url) == <<"data:">> \o url

(***************************************************************************)
(* inlineResources, lines 92-132.  The operators below take the program    *)
(* state st (the variables pc, net, race, attr, cssRules, cur, parsed,     *)
(* opts, calls, writes as a record) and return the state after the code    *)
(* they model has run.                                                     *)
(*                                                                         *)
(* A task is a call of inlineResources on an element or the async          *)
(* function of lines 113-118 of one url(); writes records which task       *)
(* wrote an href, a data-src, the argument node of a url() or the src of   *)
(* a rule.                                                                 *)
(*                                                                         *)
(* pc[n] is "idle" before inlineResources(n) is called, "awaitFetch" at    *)
(* the await of line 95, "awaitFonts" at the await of line 123,            *)
(* "awaitChildren" at the await of line 131, and "fulfilled" or            *)
(* "rejected" once the promise the call returned has settled.              *)
(***************************************************************************)

Call(n) == <<"inlineResources", n, 0, 0>>
Closure(ref) == <<"async", ref[1], ref[2], ref[3]>>

Wrote(st, locations, task) ==
    [st EXCEPT !.writes = @ \cup {<<l, task>> : l \in locations}]

\* The options of a call: fetchAsDataURL is the caller's function or absent.
NoOptions == [fetchAsDataURL |-> "undefined"]
InlineOptions == {NoOptions, [fetchAsDataURL |-> "callerFetch"]}

\* Line 93: const { fetchAsDataURL = defaultFetchAsDataURL } = options
fetchAsDataURL(o) ==
    IF o.fetchAsDataURL = "undefined" THEN "defaultFetchAsDataURL"
    ELSE o.fetchAsDataURL

\* withTimeout(5000, message, () => fetchAsDataURL(url)): the fetch
\* function of the call is called and its promise raced against a timer.
withTimeout(st, ref) ==
    [st EXCEPT !.net[ref] = "pending", !.race[ref] = "pending",
               !.calls[ref] = Append(@, fetchAsDataURL(st.opts[ref[1]]))]

\* WalkSrc stopping after the first fetch it starts, as if each fetch were
\* awaited inside the walk.
RECURSIVE WalkSrcFirstOnly(_, _, _, _)
WalkSrcFirstOnly(st, n, r, k) ==
    IF k > Len(st.parsed[n]) THEN [st |-> st, threw |-> FALSE]
    ELSE IF ~IsUrlNode(st.parsed[n][k]) THEN WalkSrcFirstOnly(st, n, r, k + 1)
    ELSE IF URL(Unescape(st.parsed[n][k].nodes[1].value), Null) = Invalid
         THEN [st |-> st, threw |-> TRUE]
         ELSE [st |-> withTimeout(st, <<n, r, k>>), threw |-> FALSE]

\* Lines 107-122: the walk over the nodes of one rule's src.  Every url()
\* starts a fetch (lines 112-119); new URL() of line 111 has no base and
\* throws for a reference that is not absolute, which ends the walk.
RECURSIVE WalkSrc(_, _, _, _)
WalkSrc(st, n, r, k) ==
    IF k > Len(st.parsed[n]) THEN [st |-> st, threw |-> FALSE]
    ELSE IF ~IsUrlNode(st.parsed[n][k]) THEN WalkSrc(st, n, r, k + 1)
    ELSE IF URL(Unescape(st.parsed[n][k].nodes[1].value), Null) = Invalid
         THEN [st |-> st, threw |-> TRUE]
         ELSE WalkSrc(withTimeout(st, <<n, r, k>>), n, r, k + 1)

RECURSIVE inlineResources(_, _, _)
RECURSIVE ForRules(_, _, _)
RECURSIVE MapChildren(_, _, _)

\* Recurse calling inlineResources on the first child only, as if the
\* children were awaited one after the other.
RecurseFirstOnly(st, n) ==
    [MapChildren(st, IF children(n) = <<>> THEN <<>> ELSE <<Head(children(n))>>,
                 st.opts[n])
        EXCEPT !.pc[n] = "awaitChildren"]

\* Recurse calling inlineResources(element) on the children, without the
\* options of the call.
RecurseWithoutOptions(st, n) ==
    [MapChildren(st, children(n), NoOptions) EXCEPT !.pc[n] = "awaitChildren"]

\* Line 131: inlineResources is called on every child, in order, with the
\* options of this call, and the call then awaits Promise.all of the
\* promises they return.
Recurse(st, n) ==
    [MapChildren(st, children(n), st.opts[n]) EXCEPT !.pc[n] = "awaitChildren"]

MapChildren(st, cs, o) ==
    IF cs = <<>> THEN st
    ELSE MapChildren(inlineResources(st, Head(cs), o), Tail(cs), o)

\* Lines 103-126, from rule r on: rules that are not font-face rules are
\* skipped; for a font-face rule the src is parsed, the fetches are
\* started and the call awaits Promise.all of them (line 123).  A throw
\* is caught at line 127, after which line 131 runs.
ForRules(st, n, r) ==
    IF r > Len(st.cssRules[n]) THEN Recurse(st, n)
    ELSE IF ~isCSSFontFaceRule(st.cssRules[n][r]) THEN ForRules(st, n, r + 1)
    ELSE LET parsedSourceValue == cssValueParser(st.cssRules[n][r].src)
             walk == WalkSrc([st EXCEPT !.cur[n] = r,
                                        !.parsed[n] = parsedSourceValue], n, r, 1)
         IN  IF walk.threw
             THEN Recurse(walk.st, n)
             ELSE [walk.st EXCEPT !.pc[n] = "awaitFonts"]

\* Lines 92-131, up to the first await of the call.
inlineResources(st, n, o) ==
    LET called == [st EXCEPT !.opts[n] = o]
    IN  IF isSVGImageElement(n)
        THEN [withTimeout(called, ImageRef(n)) EXCEPT !.pc[n] = "awaitFetch"]
        ELSE IF isSVGStyleElement(n) /\ tree[n].sheet.hasSheet
        THEN ForRules(called, n, 1)
        ELSE Recurse(called, n)

\* InlineImage with lines 98 and 99 in the other order.
InlineImageHrefFirst(a, dataURL) ==
    LET withHref == [a EXCEPT !.href = dataURL]
    IN  [withHref EXCEPT !.dataSrc = withHref.href]

\* Lines 98-99, after the await of line 95 has returned dataURL.
InlineImage(a, dataURL) ==
    LET withSrc == [a EXCEPT !.dataSrc = a.href]
    IN  [withSrc EXCEPT !.href = dataURL]

\* ResumeImage with the failure caught, as the style branch catches its
\* failures: line 131 runs after a failed fetch too.
ResumeImageCaught(st, n) ==
    IF st.race[ImageRef(n)] = "ok"
    THEN Recurse(Wrote([st EXCEPT !.attr[n] = InlineImage(@, DataURL(tree[n].href))],
                       {<<"data-src", n, 0, 0>>, <<"href", n, 0, 0>>},
                       Call(n)), n)
    ELSE Recurse(st, n)

\* ResumeImage with line 98 run whatever the await of line 95 gave.
ResumeImageDataSrcAlways(st, n) ==
    IF st.race[ImageRef(n)] = "ok"
    THEN Recurse(Wrote([st EXCEPT !.attr[n] = InlineImage(@, DataURL(tree[n].href))],
                       {<<"data-src", n, 0, 0>>, <<"href", n, 0, 0>>},
                       Call(n)), n)
    ELSE Wrote([st EXCEPT !.attr[n].dataSrc = st.attr[n].href, !.pc[n] = "rejected"],
               {<<"data-src", n, 0, 0>>}, Call(n))

\* ResumeImage fetching the image a second time after a failure.
ResumeImageRetry(st, n) ==
    IF st.race[ImageRef(n)] = "ok"
    THEN Recurse(Wrote([st EXCEPT !.attr[n] = InlineImage(@, DataURL(tree[n].href))],
                       {<<"data-src", n, 0, 0>>, <<"href", n, 0, 0>>},
                       Call(n)), n)
    ELSE IF Len(st.calls[ImageRef(n)]) < 2
    THEN withTimeout(st, ImageRef(n))
    ELSE [st EXCEPT !.pc[n] = "rejected"]

\* The call of image n resumes at line 95: with the data URL, lines 98-99
\* and 131 run; a rejection of withTimeout rejects the call.
ResumeImage(st, n) ==
    IF st.race[ImageRef(n)] = "ok"
    THEN Recurse(Wrote([st EXCEPT !.attr[n] = InlineImage(@, DataURL(tree[n].href))],
                       {<<"data-src", n, 0, 0>>, <<"href", n, 0, 0>>},
                       Call(n)), n)
    ELSE [st EXCEPT !.pc[n] = "rejected"]

\* The references whose fetches line 123 awaits for rule r of n.
Awaited(n, r) == {<<n, r, k>> : k \in UrlTokens(tree[n].sheet.rules[r].src)}

Failed(st, ref) == st.race[ref] \in {"err", "timeout"}

\* ResumeFonts writing the src of the rule after a failure too, as if
\* line 124 were in a finally.
ResumeFontsWriteAlways(st, n) ==
    LET written == Wrote([st EXCEPT !.cssRules[n][st.cur[n]].src =
                                        stringify(st.parsed[n])],
                         {<<"src", n, st.cur[n], 0>>}, Call(n))
    IN  IF \E ref \in Awaited(n, st.cur[n]) : Failed(st, ref)
        THEN Recurse(written, n)
        ELSE ForRules(written, n, st.cur[n] + 1)

\* The call of style element n resumes at line 123.  Promise.all rejects
\* as soon as one promise has rejected: the catch of line 127 and then
\* line 131 run.  When all are fulfilled, line 124 writes the src and the
\* loop goes on with the next rule.
ResumeFonts(st, n) ==
    IF \E ref \in Awaited(n, st.cur[n]) : Failed(st, ref)
    THEN Recurse(st, n)
    ELSE ForRules(Wrote([st EXCEPT !.cssRules[n][st.cur[n]].src =
                                        stringify(st.parsed[n])],
                        {<<"src", n, st.cur[n], 0>>}, Call(n)),
                  n, st.cur[n] + 1)

\* The call of n resumes at line 131: Promise.all rejects as soon as one
\* child's promise has rejected and fulfils when all are fulfilled.
ResumeChildren(st, n) ==
    IF \E c \in ChildSet(n) : st.pc[c] = "rejected"
    THEN [st EXCEPT !.pc[n] = "rejected"]
    ELSE [st EXCEPT !.pc[n] = "fulfilled"]

\* The await of n's call has a settled promise to resume with.
Runnable(st, n) ==
    \/ /\ st.pc[n] = "awaitFetch"
       /\ st.race[ImageRef(n)] # "pending"
    \/ /\ st.pc[n] = "awaitFonts"
       /\ \/ \E ref \in Awaited(n, st.cur[n]) : Failed(st, ref)
          \/ \A ref \in Awaited(n, st.cur[n]) : st.race[ref] = "ok"
    \/ /\ st.pc[n] = "awaitChildren"
       /\ \/ \E c \in ChildSet(n) : st.pc[c] = "rejected"
          \/ \A c \in ChildSet(n) : st.pc[c] = "fulfilled"

Resume(st, n) ==
    IF st.pc[n] = "awaitFetch" THEN ResumeImage(st, n)
    ELSE IF st.pc[n] = "awaitFonts" THEN ResumeFonts(st, n)
    ELSE ResumeChildren(st, n)

\* The microtask queue is drained: every call that can resume does, until
\* all that are left await a fetch or a timer.
RECURSIVE Drain(_)
Drain(st) ==
    LET ready == {n \in Nodes : Runnable(st, n)}
    IN  IF ready = {} THEN st
        ELSE Drain(Resume(st, CHOOSE n \in ready : \A m \in ready : n <= m))

\* SetUrlArgument writing the src of the rule as well, as if line 124 were
\* in the function of lines 113-118.
SetUrlArgumentAndSrc(st, ref) ==
    LET n == ref[1]
        k == ref[3]
        url == URL(Unescape(st.parsed[n][k].nodes[1].value), Null)
        set == [st EXCEPT !.parsed[n][k].nodes[1].value = DataURL(url)]
    IN  Wrote([set EXCEPT !.cssRules[n][ref[2]].src = stringify(set.parsed[n])],
              {<<"url", n, ref[2], k>>, <<"src", n, ref[2], 0>>}, Closure(ref))

\* Line 117, the continuation of the function of lines 113-118: the url()
\* argument node is given the data URL.
SetUrlArgument(st, ref) ==
    LET n == ref[1]
        k == ref[3]
        url == URL(Unescape(st.parsed[n][k].nodes[1].value), Null)
    IN  Wrote([st EXCEPT !.parsed[n][k].nodes[1].value = DataURL(url)],
              {<<"url", n, ref[2], k>>}, Closure(ref))

\* Promise.race of withTimeout: the first of the fetch and the timer to
\* settle settles it; what settles later changes nothing.
SettleRace(st, ref, outcome) ==
    IF st.race[ref] # "pending" THEN st
    ELSE LET settled == [st EXCEPT !.race[ref] = outcome]
         IN  IF outcome = "ok" /\ ref # ImageRef(ref[1])
             THEN SetUrlArgument(settled, ref)
             ELSE settled

State == [pc |-> pc, net |-> net, race |-> race, attr |-> attr,
          cssRules |-> cssRules, cur |-> cur, parsed |-> parsed,
          opts |-> opts, calls |-> calls, writes |-> writes]

Becomes(st) ==
    /\ pc' = st.pc
    /\ net' = st.net
    /\ race' = st.race
    /\ attr' = st.attr
    /\ cssRules' = st.cssRules
    /\ cur' = st.cur
    /\ parsed' = st.parsed
    /\ opts' = st.opts
    /\ calls' = st.calls
    /\ writes' = st.writes
    /\ UNCHANGED <<tree, cvars>>

\* The caller calls inlineResources(element, options) on the root.
InlineResources ==
    /\ pc[Root] = "idle"
    /\ \E o \in InlineOptions : Becomes(Drain(inlineResources(State, Root, o)))

\* The promise of fetchAsDataURL fulfils.
FetchFulfilled(ref) ==
    /\ net[ref] = "pending"
    /\ Becomes(Drain(SettleRace([State EXCEPT !.net[ref] = "ok"], ref, "ok")))

\* The promise of fetchAsDataURL rejects.
FetchRejected(ref) ==
    /\ net[ref] = "pending"
    /\ Becomes(Drain(SettleRace([State EXCEPT !.net[ref] = "err"], ref, "err")))

\* The timer of withTimeout fires before the fetch has settled.
Timeout(ref) ==
    /\ race[ref] = "pending"
    /\ Becomes(Drain(SettleRace(State, ref, "timeout")))

InitInline ==
    /\ tree \in Trees
    /\ pc = [n \in DOMAIN tree |-> "idle"]
    /\ net = [ref \in RefsOf(tree) |-> "idle"]
    /\ race = [ref \in RefsOf(tree) |-> "idle"]
    /\ attr = [n \in DOMAIN tree |-> [href |-> tree[n].href, dataSrc |-> Null]]
    /\ cssRules = [n \in DOMAIN tree |-> tree[n].sheet.rules]
    /\ cur = [n \in DOMAIN tree |-> 0]
    /\ parsed = [n \in DOMAIN tree |-> <<>>]
    /\ opts = [n \in DOMAIN tree |-> NoOptions]
    /\ calls = [ref \in RefsOf(tree) |-> <<>>]
    /\ writes = {}
    /\ element = <<>>
    /\ options = <<>>
    /\ styleSheets = <<>>
    /\ original = <<>>
    /\ svgDocs = <<>>

InitCollect ==
    /\ element = PlainElement
    /\ options = [captureArea |-> <<>>]
    /\ styleSheets \in Documents
    /\ original = styleSheets
    /\ svgDocs = <<>>
    /\ tree = <<>>
    /\ pc = <<>>
    /\ net = <<>>
    /\ race = <<>>
    /\ attr = <<>>
    /\ cssRules = <<>>
    /\ cur = <<>>
    /\ parsed = <<>>
    /\ opts = <<>>
    /\ calls = <<>>
    /\ writes = {}

NextCollect == ElementToSVG

SpecCollect == InitCollect /\ [][NextCollect]_vars

InitConvert ==
    /\ element \in SourceTrees
    /\ options \in Options
    /\ styleSheets = PlainDocument
    /\ original = styleSheets
    /\ svgDocs = <<>>
    /\ tree = <<>>
    /\ pc = <<>>
    /\ net = <<>>
    /\ race = <<>>
    /\ attr = <<>>
    /\ cssRules = <<>>
    /\ cur = <<>>
    /\ parsed = <<>>
    /\ opts = <<>>
    /\ calls = <<>>
    /\ writes = {}

NextConvert == ElementToSVG

SpecConvert == InitConvert /\ [][NextConvert]_vars

NextInline ==
    \/ InlineResources
    \/ \E ref \in Refs : FetchFulfilled(ref)
    \/ \E ref \in Refs : FetchRejected(ref)
    \/ \E ref \in Refs : Timeout(ref)

SpecInline == InitInline /\ [][NextInline]_vars

(***************************************************************************)
(* Properties of inlineResources, checked under SpecInline.                *)
(***************************************************************************)
Images == {n \in Nodes : isSVGImageElement(n)}
Styles == {n \in Nodes : isSVGStyleElement(n)}

RECURSIVE Ancestors(_)
Ancestors(n) ==
    IF tree[n].parent = 0 THEN {}
    ELSE {tree[n].parent} \cup Ancestors(tree[n].parent)

Settled(n) == pc[n] \in {"fulfilled", "rejected"}
Running(n) == pc[n] \in {"awaitFetch", "awaitFonts", "awaitChildren"}
FetchFailed(ref) == race[ref] \in {"err", "timeout"}

\* The image has its href replaced by the data URL and its original URL
\* in data-src.
Inlined(n) ==
    /\ attr[n].href = DataURL(tree[n].href)
    /\ attr[n].dataSrc = tree[n].href

Untouched(n) ==
    /\ attr[n].href = tree[n].href
    /\ attr[n].dataSrc = Null

\* The call of a has got past a's own resources without failing.
OwnWorkDone(a) ==
    /\ pc[a] \in {"awaitChildren", "fulfilled", "rejected"}
    /\ isSVGImageElement(a) => race[ImageRef(a)] = "ok"

\* The argument of the url() a font reference names, in the rule's src.
SrcArgument(ref) == cssRules[ref[1]][ref[2]].src[ref[3]].arg

\* C1: the top-level call of inlineResources never rejects because the
\* fetch of an image element failed or timed out.
C1_TopLevelNeverRejects ==
    \A i \in Images : FetchFailed(ImageRef(i)) => pc[Root] # "rejected"

\* C2: the promise of inlineResources(n) settles only after the calls on
\* all children of n have settled: when it has settled, no call on a
\* child is still running.
C2_FanIn ==
    \A n \in Nodes : Settled(n) => \A c \in ChildSet(n) : ~Running(c)

\* C3: when the fetch of image j times out, j alone is left as it was:
\* every other image whose ancestors got past their own resources has had
\* its fetch started, and is inlined once that fetch has succeeded.
C3_TimeoutIsolation ==
    \A j \in Images :
        race[ImageRef(j)] = "timeout" =>
            /\ Untouched(j)
            /\ \A i \in Images \ {j} :
                  (\A a \in Ancestors(i) : OwnWorkDone(a)) =>
                      /\ net[ImageRef(i)] # "idle"
                      /\ race[ImageRef(i)] = "ok" => Inlined(i)

\* Where C3's case happens: an image timed out and another one is inlined.
C3_Witness ==
    \E j \in Images : \E i \in Images \ {j} :
        /\ race[ImageRef(j)] = "timeout"
        /\ pc[j] = "rejected"
        /\ race[ImageRef(i)] = "ok"
        /\ Inlined(i)

\* C4: within one style element, when the fetch of a font URL has failed,
\* every other font URL of the same rule or of a later rule whose fetch
\* has succeeded has its data URL in the src of its rule.
C4_FontFailureIsolation ==
    \A n \in Styles : \A f \in FontRefs(tree, n) : \A g \in FontRefs(tree, n) :
        (f # g /\ g[2] >= f[2] /\ FetchFailed(f) /\ race[g] = "ok")
            => IsAbsolute(SrcArgument(g)) /\ Head(SrcArgument(g)) = "data:"

\* C5: an image whose fetch succeeded within the timeout has the data URL
\* as its href and the URL it had before as its data-src.
C5_ImageRoundTrip ==
    \A i \in Images : race[ImageRef(i)] = "ok" => Inlined(i)

\* Where C5's case happens: an image with a relative href is inlined.
C5_Witness ==
    \E i \in Images :
        /\ race[ImageRef(i)] = "ok"
        /\ ~IsAbsolute(tree[i].href)
        /\ attr[i].dataSrc = tree[i].href
        /\ attr[i].href # tree[i].href

\* C6 as stated: while the call of a style element awaits the fetches of
\* one rule, the fetches of the URLs of the later rules are in flight too.
C6_AllRulesTogether ==
    \A n \in Styles :
        pc[n] = "awaitFonts" =>
            \A ref \in FontRefs(tree, n) : ref[2] > cur[n] => net[ref] # "idle"

\* C6 as amended: the fetches of the URLs of one font-face rule are
\* started together, before the call awaits any of them, and a fetch of a
\* later rule is started only after every fetch of the earlier rules has
\* been fulfilled.
C6_RuleByRule ==
    \A n \in Styles :
        /\ pc[n] = "awaitFonts" =>
              \A ref \in Awaited(n, cur[n]) : net[ref] # "idle"
        /\ \A f \in FontRefs(tree, n) : \A g \in FontRefs(tree, n) :
              (g[2] > f[2] /\ net[g] # "idle") => race[f] = "ok"

\* Where C6's case happens: two fetches of one rule are pending together
\* while the fetch of a later rule has not been started.
C6_Witness ==
    \E n \in Styles : \E f \in FontRefs(tree, n) : \E g \in FontRefs(tree, n) :
        \E h \in FontRefs(tree, n) :
            /\ f # g /\ f[2] = g[2] /\ h[2] > f[2]
            /\ race[f] = "pending" /\ race[g] = "pending"
            /\ net[h] = "idle"

\* C7: once a font fetch of the rule a style element awaits has failed,
\* its call does not go on to the children, nor return, while another
\* font fetch it started is still pending.
C7_StyleWaitsForAllFonts ==
    \A n \in Styles :
        (/\ pc[n] \in {"awaitChildren", "fulfilled", "rejected"}
         /\ \E f \in FontRefs(tree, n) : FetchFailed(f))
            => \A g \in FontRefs(tree, n) : race[g] # "pending"

(***************************************************************************)
(* Properties of the font-face collector, checked under SpecCollect.       *)
(***************************************************************************)
LastDoc == svgDocs[Len(svgDocs)]

\* The texts of the font-face rules of the accessible sheets, in order.
RECURSIVE FontFaceTexts(_)
FontFaceTexts(rs) ==
    IF rs = <<>> THEN <<>>
    ELSE (IF isCSSFontFaceRule(Head(rs)) THEN <<cssText(Head(rs))>> ELSE <<>>)
         \o FontFaceTexts(Tail(rs))

RECURSIVE AccessibleTexts(_)
AccessibleTexts(sheets) ==
    IF sheets = <<>> THEN <<>>
    ELSE (IF Head(sheets).accessible THEN FontFaceTexts(Head(sheets).rules) ELSE <<>>)
         \o AccessibleTexts(Tail(sheets))

SomeInaccessible == \E i \in DOMAIN styleSheets : ~styleSheets[i].accessible

\* C8: when the rules of a style sheet cannot be read, elementToSVG does
\* not throw, and the style block holds the font-face rules of the
\* accessible sheets, all of them and no other.
C8_InaccessibleSheetSkipped ==
    (svgDocs # <<>> /\ SomeInaccessible) =>
        /\ ~LastDoc.threw
        /\ LastDoc.style = AccessibleTexts(styleSheets)

\* Where C8's case happens: the first sheet is inaccessible and the second
\* one has given the style block a rule.
C8_Witness ==
    /\ svgDocs # <<>>
    /\ Len(styleSheets) = 2
    /\ ~styleSheets[1].accessible
    /\ styleSheets[2].accessible
    /\ ~LastDoc.threw
    /\ LastDoc.style # <<>>

\* The url() arguments of a copied rule.
UrlArguments(text) ==
    {text.src[k].arg : k \in {j \in DOMAIN text.src :
                                 IsUrlToken(text.src[j])}}

\* C9: every url() of every font-face rule copied to the style block is an
\* absolute URL.
C9_NoRelativeUrl ==
    \A d \in DOMAIN svgDocs : \A t \in DOMAIN svgDocs[d].style :
        \A u \in UrlArguments(svgDocs[d].style[t]) : IsAbsolute(u)

\* C10: every call of elementToSVG on the same document gives the same
\* style text, and after a first call a further call leaves the rules of
\* the document as they are.
C10_Idempotent ==
    /\ \A d \in DOMAIN svgDocs : svgDocs[d].style = svgDocs[1].style
    /\ svgDocs # <<>> =>
          elementToSVG(element, options, styleSheets).styleSheets = styleSheets

\* Where C10's case happens: two calls, the first of which rewrote a URL.
C10_Witness ==
    /\ Len(svgDocs) >= 2
    /\ original # styleSheets
    /\ svgDocs[1].style # <<>>

\* C17: after elementToSVG has returned, the rules of the style sheets of
\* the source document are what they were before the first call.
C17_SourceNotMutated ==
    svgDocs # <<>> => styleSheets = original

(***************************************************************************)
(* Properties of the conversion, checked under SpecConvert.                *)
(***************************************************************************)
\* The number a decimal numeral denotes.
DigitValue(c) == CHOOSE d \in 0..9 : Digits[d + 1] = c

RECURSIVE ParseNat(_, _)
ParseNat(s, acc) ==
    IF s = <<>> THEN acc
    ELSE ParseNat(Tail(s), 10 * acc + DigitValue(Head(s)))

ParseNumber(s) ==
    IF Head(s) = "-" THEN 0 - ParseNat(Tail(s), 0) ELSE ParseNat(s, 0)

\* The numerals of a text, which a space separates.
RECURSIVE Numerals(_, _)
Numerals(s, word) ==
    IF s = <<>> THEN <<word>>
    ELSE IF Head(s) = " " THEN <<word>> \o Numerals(Tail(s), <<>>)
    ELSE Numerals(Tail(s), Append(word, Head(s)))

\* The capture area of the conversion: the one the caller gave, else the
\* bounding box of the converted element.
CaptureArea ==
    IF options.captureArea # <<>> THEN options.captureArea[1] ELSE element[1].rect

\* C11: width, height and viewBox of the output root are the width, the
\* height and "x y width height" of the capture area, which is
\* options.captureArea when given and the bounding box of the element
\* otherwise; the walk is given the same rectangle.
C11_BoundsFromCaptureArea ==
    \A d \in DOMAIN svgDocs :
        ~svgDocs[d].threw =>
            LET viewBox == Numerals(svgDocs[d].viewBox, <<>>)
            IN  /\ ParseNumber(svgDocs[d].width) = CaptureArea.width
                /\ ParseNumber(svgDocs[d].height) = CaptureArea.height
                /\ [i \in 1..Len(viewBox) |-> ParseNumber(viewBox[i])]
                      = <<CaptureArea.x, CaptureArea.y,
                          CaptureArea.width, CaptureArea.height>>
                /\ svgDocs[d].captureArea = <<CaptureArea>>

\* The source nodes at and below n.
RECURSIVE Subtree(_)
Subtree(n) ==
    {n} \cup UNION {Subtree(c) : c \in {m \in DOMAIN element : element[m].parent = n}}

\* The source nodes that have an output node in a document.
Emitted(doc) == {doc.body[i] : i \in DOMAIN doc.body}

\* C13: a source node whose rectangle does not intersect the capture area
\* has no output node, and no node below it has one.
C13_Culling ==
    \A d \in DOMAIN svgDocs : \A n \in DOMAIN element :
        ~doRectanglesIntersect(element[n].rect, CaptureArea)
            => Subtree(n) \cap Emitted(svgDocs[d]) = {}

\* Where C13's case happens: a node outside the capture area has a child
\* inside it, and a node inside the capture area was emitted.
C13_Witness ==
    /\ svgDocs # <<>>
    /\ Emitted(svgDocs[1]) # {}
    /\ \E n \in DOMAIN element : \E c \in DOMAIN element :
          /\ element[c].parent = n
          /\ element[n].parent # 0
          /\ ~doRectanglesIntersect(element[n].rect, CaptureArea)
          /\ doRectanglesIntersect(element[c].rect, CaptureArea)

\* The paint order of CSS among the nodes of one stacking context: negative
\* z-index, then content that is not positioned, then positioned content
\* of z-index auto or 0, then positive z-index.
PaintLevel(n) ==
    LET style == element[n].style
    IN  IF style.position = "static" THEN 2
        ELSE IF style.zIndex = <<>> THEN 3
        ELSE IF style.zIndex[1] < 0 THEN 1
        ELSE IF style.zIndex[1] > 0 THEN 4
        ELSE 3

\* The stacking context a node belongs to: the nearest node above it that
\* is positioned and has a z-index, or 0, the root context.
RECURSIVE StackingContextOf(_)
StackingContextOf(n) ==
    LET p == element[n].parent
    IN  IF p = 0 THEN 0
        ELSE IF element[p].style.position # "static" /\ element[p].style.zIndex # <<>>
        THEN p
        ELSE StackingContextOf(p)

PositionIn(body, n) == CHOOSE i \in DOMAIN body : body[i] = n

C11_Witness ==
    /\ svgDocs # <<>>
    /\ options.captureArea = <<RectAcross>>
    /\ element[1].rect # RectAcross
    /\ svgDocs[1].viewBox = <<"-", "5", " ", "5", " ", "1", "2", " ", "7">>

(***************************************************************************)
(* Further properties of inlineResources, checked under SpecInline.        *)
(***************************************************************************)
\* C12: when the caller passes options.fetchAsDataURL, every fetch of the
\* pass, of an image or of a font and at every depth, is a call of the
\* caller's function; the default function is never called.
C12_InjectedFetch ==
    opts[Root].fetchAsDataURL # "undefined" =>
        \A ref \in Refs : \A i \in DOMAIN calls[ref] :
            calls[ref][i] = opts[Root].fetchAsDataURL

\* Where C12's case happens: with a function of the caller, an image two
\* levels below the root and a font have been fetched.
C12_Witness ==
    /\ opts[Root].fetchAsDataURL = "callerFetch"
    /\ \E i \in Images :
          /\ tree[i].parent # Root
          /\ calls[ImageRef(i)] = <<"callerFetch">>
    /\ \E n \in Styles : \E f \in FontRefs(tree, n) : calls[f] = <<"callerFetch">>

\* C15: within one pass the fetch function is called at most once for each
\* resource reference, also after its fetch has failed or timed out.
C15_NoRetry ==
    \A ref \in Refs : Len(calls[ref]) <= 1

\* Where C15's case happens: the pass has ended, and the fetch of an image
\* and the fetch of a font have failed.
C15_Witness ==
    /\ Settled(Root)
    /\ \E i \in Images : FetchFailed(ImageRef(i)) /\ Len(calls[ImageRef(i)]) = 1
    /\ \E n \in Styles : \E f \in FontRefs(tree, n) :
          FetchFailed(f) /\ Len(calls[f]) = 1

\* C16: what the pass writes (an href, a data-src, the argument of a
\* url(), the src of a rule) is written by one task only.
C16_DisjointWrites ==
    \A v \in writes : \A w \in writes : v[1] = w[1] => v[2] = w[2]

\* Where C16's case happens: two fetches of one rule have written their
\* url() argument, the call has written the src of that rule, and an
\* image has been inlined.
C16_Witness ==
    /\ \E n \in Styles : \E f \in FontRefs(tree, n) : \E g \in FontRefs(tree, n) :
          /\ f # g /\ f[2] = g[2]
          /\ <<<<"url", f[1], f[2], f[3]>>, Closure(f)>> \in writes
          /\ <<<<"url", g[1], g[2], g[3]>>, Closure(g)>> \in writes
          /\ <<<<"src", n, f[2], 0>>, Call(n)>> \in writes
    /\ \E i \in Images : <<<<"href", i, 0, 0>>, Call(i)>> \in writes

\* The url() references of rule r of style element n are all data URLs.
AllInlined(n, r) ==
    \A k \in UrlTokens(tree[n].sheet.rules[r].src) :
        /\ IsUrlToken(cssRules[n][r].src[k])
        /\ IsAbsolute(cssRules[n][r].src[k].arg)
        /\ Head(cssRules[n][r].src[k].arg) = "data:"

\* C18: in every state of a pass, the src of a font-face rule of a style
\* element is what it was before the pass, or every url() reference of it
\* has been replaced by a data URL.
C18_RuleAtomic ==
    \A n \in Styles : \A r \in DOMAIN cssRules[n] :
        \/ cssRules[n][r].src = tree[n].sheet.rules[r].src
        \/ AllInlined(n, r)

\* Where C18's case happens: a fetch of a rule has been fulfilled after
\* another fetch of the same rule had failed, and the call has returned.
C18_Witness ==
    \E n \in Styles : \E f \in FontRefs(tree, n) : \E g \in FontRefs(tree, n) :
        /\ f # g /\ f[2] = g[2]
        /\ FetchFailed(f)
        /\ race[g] = "ok"
        /\ Settled(n)
        /\ cssRules[n][f[2]].src = tree[n].sheet.rules[f[2]].src

\* C19: an image whose fetch has failed or timed out keeps its href and
\* has no data-src, also once the fetch has been fulfilled after the
\* timeout.
C19_FailedImageUntouched ==
    \A i \in Images : FetchFailed(ImageRef(i)) => Untouched(i)

\* Where C19's case happens: the fetch of an image was fulfilled after its
\* timeout had fired, and the fetch of another image was rejected.
C19_Witness ==
    \E i \in Images : \E j \in Images :
        /\ race[ImageRef(i)] = "timeout"
        /\ net[ImageRef(i)] = "ok"
        /\ pc[i] = "rejected"
        /\ race[ImageRef(j)] = "err"
        /\ Untouched(i) /\ Untouched(j)

\* The call of n has left n's own resources behind: it is at line 131 or
\* has settled.
PastOwnResources(n) == pc[n] \in {"awaitChildren", "fulfilled", "rejected"}

\* C20: inlineResources is called on a child only once the call of its
\* parent is past the parent's own resources, which for an image means
\* that its fetch succeeded: the children of an image whose fetch failed
\* or timed out are never visited.  The children of a style element are
\* visited as soon as its call is past its fonts, failed or not.
C20_ParentBeforeChildren ==
    /\ \A n \in Nodes : \A c \in ChildSet(n) :
          pc[c] # "idle" =>
              /\ PastOwnResources(n)
              /\ isSVGImageElement(n) => race[ImageRef(n)] = "ok"
    /\ \A i \in Images : FetchFailed(ImageRef(i)) =>
          \A c \in ChildSet(i) : pc[c] = "idle"
    /\ \A n \in Styles : PastOwnResources(n) =>
          \A c \in ChildSet(n) : pc[c] # "idle"

\* Where C20's case happens: the pass has ended; a style element one of
\* whose fonts failed has a visited child, and an image whose fetch
\* failed has a child that was not visited.
C20_Witness ==
    /\ Settled(Root)
    /\ \E n \in Styles :
          /\ \E f \in FontRefs(tree, n) : FetchFailed(f)
          /\ \E c \in ChildSet(n) : pc[c] # "idle"
    /\ \E i \in Images :
          /\ FetchFailed(ImageRef(i))
          /\ \E c \in ChildSet(i) : pc[c] = "idle"

====
